---------------------------- MODULE Spec2Model ----------------------------
(***************************************************************************)
(* A model of windowpos (src/__init__.py): a one-shot command-line tool    *)
(* that moves a window of an X11 desktop onto a half or a quarter of a     *)
(* monitor.  The desktop (monitors, windows, margin tables) is the         *)
(* environment; one behaviour is one invocation of an entry point of the   *)
(* module.  The code is Python 2: `/` on integers is floor division and a  *)
(* str compares greater than every int.                                   *)
(*                                                                         *)
(* Conventions.  An optional value (None or a value) is a sequence of      *)
(* length 0 or 1.  A name that the code trims or lower-cases is a sequence *)
(* of one-character strings.  A tuple indexed 0..3 in the code is indexed  *)
(* 1..4 here.                                                              *)
(***************************************************************************)
EXTENDS Integers, Sequences, FiniteSets, TLC

None == <<>>
Some(v) == <<v>>
IsNone(o) == o = <<>>
IsSome(o) == o # <<>>
Val(o) == o[1]

(***************************************************************************)
(* Strings as character sequences: str.lower(), str.strip(), `in`.         *)
(***************************************************************************)
UpperChars == <<"A","B","C","D","E","F","G","H","I","J","K","L","M",
                "N","O","P","Q","R","S","T","U","V","W","X","Y","Z">>
LowerChars == <<"a","b","c","d","e","f","g","h","i","j","k","l","m",
                "n","o","p","q","r","s","t","u","v","w","x","y","z">>
Whitespace == {" ", "\t", "\n"}

UpperSet == {UpperChars[i] : i \in 1..Len(UpperChars)}
LowerTable ==
    [c \in UpperSet |-> LowerChars[CHOOSE i \in 1..Len(UpperChars) : UpperChars[i] = c]]
LowerChar(c) == IF c \in UpperSet THEN LowerTable[c] ELSE c

\* str.lower()
lower(s) == [i \in 1..Len(s) |-> LowerChar(s[i])]

\* str.strip(): leading and trailing whitespace removed
strip(s) ==
    LET keep == {i \in 1..Len(s) : s[i] \notin Whitespace}
    IN  IF keep = {} THEN <<>>
        ELSE LET lo == CHOOSE i \in keep : \A j \in keep : i <= j
                 hi == CHOOSE i \in keep : \A j \in keep : i >= j
             IN  SubSeq(s, lo, hi)

\* `needle in haystack` on two strings
contains(haystack, needle) ==
    \E i \in 0..(Len(haystack) - Len(needle)) :
        SubSeq(haystack, i + 1, i + Len(needle)) = needle

\* list[i] of Python: a negative index counts from the end
InRange(seq, i) == -Len(seq) <= i /\ i < Len(seq)
PyIndex(seq, i) == IF i >= 0 THEN seq[i + 1] ELSE seq[Len(seq) + i + 1]

(***************************************************************************)
(* Names of monitors, window titles.                                       *)
(***************************************************************************)
DP0   == <<"D","P","-","0">>
DP2   == <<"D","P","-","2">>
DP4   == <<"D","P","-","4">>
HDMI0 == <<"H","D","M","I","-","0">>
DVI10 == <<"D","V","I","-","1","-","0">>

GOOGLE_CHROME == <<"g","o","o","g","l","e"," ","c","h","r","o","m","e">>
CHROMIUM      == <<"c","h","r","o","m","i","u","m">>

\* (top, right, bottom, left) per monitor name
SCREEN_MARGINS ==
    (DP0 :> <<0, 0, 24, 0>>) @@ (DP2 :> <<0, 0, 27, 0>>) @@ (DP4 :> <<24, 0, 0, 0>>)
CHROMIUM_MARGINS ==
    (DVI10 :> <<32, 0, 32, 0>>) @@ (HDMI0 :> <<0, 0, 0, 0>>)

\* dict.get(key, default)
Get(table, key, default) == IF key \in DOMAIN table THEN table[key] ELSE default

Monitor(name, x, y, w, h) == [name |-> name, x |-> x, y |-> y, w |-> w, h |-> h]

(***************************************************************************)
(* Monitor lookups.  `screens` is what get_screens_and_positions returns.  *)
(* A result is [exc, val]: exc names the exception that escapes ("" for a  *)
(* normal return), val is the optional monitor returned.                   *)
(***************************************************************************)
Returned(v) == [exc |-> "", val |-> v]
Raised(e)   == [exc |-> e, val |-> None]

\* variant of MonitorHolds: the right and bottom edges excluded
MonitorHolds_exclusive(monitor, x, y) ==
    /\ x >= monitor.x /\ x < monitor.x + monitor.w
    /\ y >= monitor.y /\ y < monitor.y + monitor.h

\* the test of line 443, both bounds inclusive
MonitorHolds(monitor, x, y) ==
    /\ x >= monitor.x /\ x <= monitor.x + monitor.w
    /\ y >= monitor.y /\ y <= monitor.y + monitor.h

\* the loop of lines 442-446 from index i on, `resident` being the default
RECURSIVE LocationLoop(_, _, _, _, _)
LocationLoop(screens, i, x, y, resident) ==
    IF i > Len(screens) THEN resident
    ELSE IF MonitorHolds(screens[i], x, y) THEN screens[i]
    ELSE LocationLoop(screens, i + 1, x, y, resident)

get_monitor_a_location_is_on(x, y, screens) ==
    IF screens = <<>> THEN Raised("IndexError")
    ELSE Returned(Some(LocationLoop(screens, 1, x, y, screens[1])))

\* variant of NameLoop: the monitor's name is not lower-cased
RECURSIVE NameLoop_case_sensitive(_, _, _, _)
NameLoop_case_sensitive(screens, i, clean_target_monitor_name, resident) ==
    IF i > Len(screens) THEN resident
    ELSE IF clean_target_monitor_name = strip(screens[i].name) THEN screens[i]
    ELSE NameLoop_case_sensitive(screens, i + 1, clean_target_monitor_name, resident)

\* the loop of lines 482-487
RECURSIVE NameLoop(_, _, _, _)
NameLoop(screens, i, clean_target_monitor_name, resident) ==
    IF i > Len(screens) THEN resident
    ELSE IF clean_target_monitor_name = strip(lower(screens[i].name)) THEN screens[i]
    ELSE NameLoop(screens, i + 1, clean_target_monitor_name, resident)

\* name: optional string; monitor_id: optional integer
get_monitor_by_name_or_id(name, monitor_id, screens) ==
    LET name1 == IF IsSome(name) /\ Val(name) # <<>> THEN Some(strip(Val(name))) ELSE name
        byId   == IsSome(monitor_id) /\ Val(monitor_id) # 0
        byName == IsSome(name1) /\ Val(name1) # <<>>
    IN  IF screens = <<>> THEN Raised("IndexError")
        ELSE IF byId
             THEN IF InRange(screens, Val(monitor_id))
                  THEN Returned(Some(PyIndex(screens, Val(monitor_id))))
                  ELSE Returned(None)
        ELSE IF byName
             THEN Returned(Some(NameLoop(screens, 1, lower(Val(name1)), screens[1])))
        ELSE Returned(Some(screens[1]))

(***************************************************************************)
(* The target rectangle (lines 663-698 of reposition_window).              *)
(* target_position is the set of the words of the tuple.                   *)
(***************************************************************************)
Keywords == {"top", "bottom", "left", "right", "middle"}

\* variant of target_monitor_margins: the browser table for every request
\* with a horizontal keyword
target_monitor_margins_any_horizontal(title, monitor, target_position, screen_tbl, chromium_tbl) ==
    LET lower_win_title == lower(title)
    IN  IF /\ contains(lower_win_title, GOOGLE_CHROME) \/ contains(lower_win_title, CHROMIUM)
           /\ ("left" \in target_position \/ "right" \in target_position)
        THEN Get(chromium_tbl, monitor.name, <<32, 0, 0, 0>>)
        ELSE Get(screen_tbl, monitor.name, <<0, 0, 0, 0>>)

\* lines 668-674: the margin 4-tuple the resolver uses
target_monitor_margins(title, monitor, target_position, screen_tbl, chromium_tbl) ==
    LET lower_win_title == lower(title)
    IN  IF /\ contains(lower_win_title, GOOGLE_CHROME) \/ contains(lower_win_title, CHROMIUM)
           /\ ("left" \in target_position \/ "right" \in target_position)
           /\ ~("top" \in target_position \/ "bottom" \in target_position)
        THEN Get(chromium_tbl, monitor.name, <<32, 0, 0, 0>>)
        ELSE Get(screen_tbl, monitor.name, <<0, 0, 0, 0>>)

target_width(monitor, m, target_position) ==
    IF "left" \in target_position \/ "right" \in target_position
    THEN (monitor.w \div 2) - m[2] - m[4]
    ELSE (monitor.w \div 1) - m[2] - m[4]

target_height(monitor, m, target_position) ==
    IF "top" \in target_position \/ "bottom" \in target_position
    THEN (monitor.h \div 2) - m[1] - m[3]
    ELSE (monitor.h \div 1) - m[1] - m[3]

\* variant of target_xoff: the `right` rule evaluated last
target_xoff_right_last(monitor, m, target_position) ==
    IF "right" \in target_position
    THEN monitor.x + monitor.w - target_width(monitor, m, target_position) - m[2]
    ELSE monitor.x + m[4]

\* variant of target_xoff: `right` starts at the middle of the monitor
target_xoff_from_middle(monitor, m, target_position) ==
    IF "left" \in target_position THEN monitor.x + m[4]
    ELSE IF "right" \in target_position THEN monitor.x + (monitor.w \div 2) + m[4]
    ELSE monitor.x + m[4]

\* lines 688, 691-694: the `left` rule is evaluated after the `right` rule
target_xoff(monitor, m, target_position) ==
    LET x0 == monitor.x + m[4]
        x1 == IF "right" \in target_position
              THEN monitor.x + monitor.w - target_width(monitor, m, target_position) - m[2]
              ELSE x0
    IN  IF "left" \in target_position THEN monitor.x + m[4] ELSE x1

\* variant of target_yoff: `bottom` forgets the bottom margin
target_yoff_no_bottom_margin(monitor, m, target_position) ==
    IF "top" \in target_position THEN monitor.y + m[1]
    ELSE IF "bottom" \in target_position
    THEN monitor.y + monitor.h - target_height(monitor, m, target_position)
    ELSE monitor.y + m[1]

\* lines 689, 695-698: the `top` rule is evaluated after the `bottom` rule
target_yoff(monitor, m, target_position) ==
    LET y0 == monitor.y + m[1]
        y1 == IF "bottom" \in target_position
              THEN monitor.y + monitor.h - target_height(monitor, m, target_position) - m[3]
              ELSE y0
    IN  IF "top" \in target_position THEN monitor.y + m[1] ELSE y1


(***************************************************************************)
(* Window enumeration (lines 248-356).                                     *)
(***************************************************************************)
\* str(n) as a sequence of decimal digits
RECURSIVE Digits(_)
Digits(n) == IF n < 10 THEN <<n>> ELSE Append(Digits(n \div 10), n % 10)

\* a < b for two strings of digits, as Python compares str
RECURSIVE StrLess(_, _)
StrLess(a, b) ==
    IF a = <<>> THEN b # <<>>
    ELSE IF b = <<>> THEN FALSE
    ELSE IF a[1] # b[1] THEN a[1] < b[1]
    ELSE StrLess(Tail(a), Tail(b))

Range(seq) == {seq[i] : i \in 1..Len(seq)}

\* one step of sorted(): the id a put in its place in a sorted list of ids,
\* compared as the strings xdotool printed
RECURSIVE Insert(_, _)
Insert(ids, a) ==
    IF ids = <<>> THEN <<a>>
    ELSE IF StrLess(Digits(a), Digits(Head(ids))) THEN <<a>> \o ids
    ELSE <<Head(ids)>> \o Insert(Tail(ids), a)

\* variant of SortedIds: the ids are left in the order they were found
SortedIds_as_found(list_of_window_ids) == list_of_window_ids

\* sorted(filter(bool, list_of_window_ids)), line 324
RECURSIVE SortedIds(_)
SortedIds(list_of_window_ids) ==
    IF list_of_window_ids = <<>> THEN <<>>
    ELSE Insert(SortedIds(Tail(list_of_window_ids)), Head(list_of_window_ids))

WIDTH_THRESHOLD == 200
HEIGHT_THRESHOLD == 200

\* get_window_geometry: line 211 stores the first number of the line under
\* both keys, so "Geometry" holds the width as w and as h
window_geo(win) == [w |-> win.w, h |-> win.w]

\* the children of a window that pass the test of line 273: width and
\* height are the strings the regex captured, and a str is > any int
LargeChildren(win) == [i \in 1..Len(win.children) |-> win.children[i].id]

RECURSIVE filter_to_large_enough_windows(_, _)
filter_to_large_enough_windows(window_ids, wins) ==
    IF window_ids = <<>> THEN <<>>
    ELSE LET window_id == Head(window_ids)
             rest == filter_to_large_enough_windows(Tail(window_ids), wins)
         IN  IF window_id \notin DOMAIN wins THEN rest
             ELSE LET geo == window_geo(wins[window_id])
                      self == IF geo.w > WIDTH_THRESHOLD /\ geo.h > HEIGHT_THRESHOLD
                              THEN <<window_id>> ELSE <<>>
                  IN  self \o LargeChildren(wins[window_id]) \o rest

\* found: what pgrep/xdotool search printed, as a sequence of window ids
get_window_ids_of_application(found, wins) ==
    filter_to_large_enough_windows(SortedIds(found), wins)


(***************************************************************************)
(* Static tables of the module.                                            *)
(***************************************************************************)
ACTIVE_WINDOW == ":ACTIVE:"

\* the keys of launcher_commmands (lines 67-73)
launcher_commmands == {"Brave", "Rambox", "Spotify", "java", "mate-terminal"}

\* application_name.lower() on the application names the model uses
lowerApp(a) ==
    CASE a = "Brave"   -> "brave"
      [] a = "Rambox"  -> "rambox"
      [] a = "Spotify" -> "spotify"
      [] a = "JAVA"    -> "java"
      [] OTHER         -> a

\* lines 497-503: whether a launcher command is found
has_launcher(application_name) ==
    lowerApp(application_name) \in launcher_commmands \/ application_name \in launcher_commmands

\* the values of spawn_missing that line 633 takes as "do not spawn";
\* None, False and 0 are written as the strings "None", "False" and "0"
NoSpawnValues == {"None", "False", "0", "", "no", "No", "NO", "x", "n"}

Placement(app, mon, pos) ==
    [application_name |-> Some(app), nth_instance_of_application |-> Some(0),
     window_id |-> None, target_monitor_name |-> Some(mon), target_desktop_id |-> Some(0),
     target_position |-> {pos}, spawn_missing |-> "True"]

\* layouts["dev"], lines 77-85
layout_dev ==
    << Placement("Brave", DP0, "right"),
       Placement("mate-terminal", DP0, "left"),
       Placement("java", DP2, "middle"),
       Placement("Spotify", DP4, "left"),
       Placement("Rambox", DP4, "right") >>

layouts == (<<"d","e","v">> :> layout_dev)

\* range(0, 20), line 536
SPAWN_TRIES == 20

(***************************************************************************)
(* State.                                                                  *)
(***************************************************************************)
VARIABLES
    monitors,           \* the desktop: what xrandr lists, in its order
    screen_margins,     \* the table SCREEN_MARGINS in use
    chromium_margins,   \* the table CHROMIUM_MARGINS in use
    windows,            \* the desktop: window id -> title, geometry, children
    active_window,      \* the desktop: optional id of the focused window
    search,             \* the desktop: application name -> ids xdotool finds
    pc,                 \* position of the running call
    call,               \* the entry point called and its arguments
    kw,                 \* keyword arguments of the running reposition_window
    window_id,          \* reposition_window: optional id of the window chosen
    polls,              \* _spawn_missing_application: polls done
    target_monitor,     \* reposition_window: optional monitor chosen
    margins,            \* reposition_window: margin tuple used
    rect,               \* reposition_window: optional <<x, y, w, h>> to apply
    cmds,               \* commands issued to wmctrl/xdotool, in order
    layout_i,           \* run_layout: index of the placement in progress
    successes,          \* run_layout: placements that returned 0
    failures,           \* run_layout: placements that returned non-zero
    found,              \* result of a monitor lookup called directly
    depth,              \* reposition_window_and_spawn_missing: frames on the stack
    process_windows,    \* the desktop: ids xdotool finds for the spawned process
    ret                 \* outcome of the entry point

env  == <<monitors, screen_margins, chromium_margins, active_window, search>>
locs == <<window_id, polls, target_monitor, margins, rect>>
lay  == <<layout_i, successes, failures>>
vars == <<monitors, screen_margins, chromium_margins, windows, active_window, search,
          pc, call, kw, window_id, polls, target_monitor, margins, rect, cmds,
          layout_i, successes, failures, found, depth, process_windows, ret>>

NoRet       == [kind |-> "none",   code |-> 0, exc |-> ""]
Return(c)   == [kind |-> "return", code |-> c, exc |-> ""]
Raise(e)    == [kind |-> "raise",  code |-> 0, exc |-> e]


(***************************************************************************)
(* The desktops and the arguments the model draws from.                    *)
(***************************************************************************)
\* index arguments (nth instance, monitor id) range over -MaxIndex..MaxIndex
MaxIndex == 3

\* frames the interpreter allows on the stack (sys.getrecursionlimit())
RecursionLimit == 4

BRAVE_TITLE    == <<"B","r","a","v","e">>
CHROMIUM_TITLE == <<"N","e","w","s"," ","-"," ","C","h","r","o","m","i","u","m">>
SPAWNED_TITLE  == <<"n","e","w">>
CHROME_TITLE   == <<"I","n","b","o","x"," ","-"," ","G","O","O","G","L","E"," ","C","h","r","o","m","e">>

Window(title, r, children) ==
    [title |-> title, x |-> r[1], y |-> r[2], w |-> r[3], h |-> r[4], children |-> children]

\* monitor lists xrandr may print
NO_MONITORS == <<>>
PAIR   == << Monitor(HDMI0, 0, 0, 1920, 1080), Monitor(DVI10, 1920, 0, 1920, 1080) >>
TRIPLE == << Monitor(DP0, 0, 0, 1920, 1080), Monitor(DP2, 1920, 0, 1365, 767),
             Monitor(DP4, 3285, 0, 2560, 1440) >>
SMALL  == << Monitor(DP0, 0, 0, 60, 40), Monitor(HDMI0, 60, 0, 41, 31) >>

\* the margin tables: those of the source, and a pair with side margins
SIDE_SCREEN_MARGINS   == (DP0 :> <<3, 5, 30, 4>>) @@ (HDMI0 :> <<1, 20, 2, 20>>)
SIDE_CHROMIUM_MARGINS == (HDMI0 :> <<7, 10, 9, 30>>)
SOURCE_TABLES == [screen |-> SCREEN_MARGINS, chromium |-> CHROMIUM_MARGINS]
SIDE_TABLES   == [screen |-> SIDE_SCREEN_MARGINS, chromium |-> SIDE_CHROMIUM_MARGINS]

\* a table with a panel on the right of HDMI-0 that leaves its half one
\* pixel wide on the 41x31 monitor
NARROW_SCREEN_MARGINS == (HDMI0 :> <<0, 19, 0, 0>>)
NARROW_TABLES == [screen |-> NARROW_SCREEN_MARGINS, chromium |-> CHROMIUM_MARGINS]

\* where window 2 sits: on the first monitor, centred on the edge shared by
\* two monitors, on the second monitor, outside every monitor, in a corner
ON_FIRST  == <<100, 100, 800, 600>>
ON_EDGE   == <<1520, 200, 800, 600>>
ON_SECOND == <<2500, 100, 800, 600>>
OUTSIDE   == <<9000, 9000, 800, 600>>
CORNER    == <<10, 10, 30, 20>>
ON_SMALL_SECOND == <<70, 5, 20, 10>>

\* the order in which the search prints the three windows of Brave
ORDER_A == <<300, 10, 2>>
ORDER_B == <<2, 10, 300>>
ORDER_C == <<10, 300, 2>>
ORDER_D == <<2, 300, 10>>

Scenario(mons, tables, place, active, order) ==
    [monitors |-> mons, tables |-> tables, place |-> place, active |-> active,
     order |-> order]

\* the desktops a behaviour may start from
Scenarios ==
    { Scenario(NO_MONITORS, SOURCE_TABLES, ON_FIRST, Some(2), ORDER_A),
      Scenario(PAIR, SOURCE_TABLES, ON_FIRST, Some(2), ORDER_A),
      Scenario(PAIR, SOURCE_TABLES, ON_FIRST, Some(2), ORDER_B),
      Scenario(PAIR, SOURCE_TABLES, ON_FIRST, Some(2), ORDER_C),
      Scenario(PAIR, SOURCE_TABLES, ON_EDGE, None, ORDER_A),
      Scenario(PAIR, SOURCE_TABLES, ON_SECOND, Some(2), ORDER_D),
      Scenario(PAIR, SIDE_TABLES, OUTSIDE, Some(2), ORDER_A),
      Scenario(TRIPLE, SOURCE_TABLES, ON_FIRST, Some(2), ORDER_A),
      Scenario(TRIPLE, SOURCE_TABLES, ON_SECOND, None, ORDER_B),
      Scenario(TRIPLE, SOURCE_TABLES, OUTSIDE, Some(2), ORDER_A),
      Scenario(SMALL, SIDE_TABLES, CORNER, Some(2), ORDER_A),
      Scenario(SMALL, SIDE_TABLES, ON_FIRST, None, ORDER_C),
      Scenario(SMALL, SOURCE_TABLES, CORNER, Some(2), ORDER_A),
      Scenario(SMALL, NARROW_TABLES, ON_SMALL_SECOND, Some(2), ORDER_A) }

\* the windows of the desktop: 2 and 300 are application windows of Brave,
\* 10 is an icon of it, 301 a child window of 300, 20 a window of another
\* browser
Desktop(place) ==
    (2   :> Window(BRAVE_TITLE, place, <<>>)) @@
    (10  :> Window(BRAVE_TITLE, <<0, 0, 100, 100>>, <<>>)) @@
    (20  :> Window(CHROME_TITLE, <<2100, 60, 700, 500>>, <<>>)) @@
    (300 :> Window(CHROMIUM_TITLE, <<2000, 50, 500, 400>>, <<[id |-> 301, w |-> 50, h |-> 50]>>)) @@
    (301 :> Window(<<>>, <<2000, 50, 50, 50>>, <<>>))

Applications == {"Brave", "mate-terminal", "java", "Spotify", "Rambox", "xterm"}

MonitorNameArgs ==
    { None, Some(<<>>), Some(<<"d","p","-","2">>), Some(<<" ","H","d","m","i","-","0"," ">>),
      Some(<<"V","G","A">>) }

IndexArgs == {None} \cup {Some(i) : i \in -MaxIndex..MaxIndex}

Kwargs(app, nth, wid, mon, pos, desk, spawn) ==
    [application_name |-> app, nth_instance_of_application |-> nth, window_id |-> wid,
     target_monitor_name |-> mon, target_position |-> pos, target_desktop_id |-> desk,
     spawn_missing |-> spawn]

Positions == SUBSET Keywords
FewPositions == {{}, {"top", "left"}, {"right"}}
DesktopArgs == {None, Some(0), Some(1)}

\* calls that name the window by id: every position and monitor name
ResolverCalls ==
    { Kwargs(None, None, Some(wid), mon, pos, None, "False") :
        wid \in {2, 300}, mon \in MonitorNameArgs, pos \in Positions }

\* calls for the other browser's window, by id
ChromeCalls ==
    { Kwargs(None, None, Some(20), None, pos, None, "False") : pos \in Positions }

\* calls that name a window id, present or not, with or without a name
IdCalls ==
    { Kwargs(app, None, Some(wid), None, pos, desk, "False") :
        app \in {None, Some("Brave")}, wid \in {2, 99},
        pos \in FewPositions, desk \in DesktopArgs }

\* calls for the active window
ActiveCalls ==
    { Kwargs(None, nth, None, None, pos, desk, "False") :
        nth \in {None, Some(0)}, pos \in FewPositions, desk \in DesktopArgs }

\* calls that name an application
AppCalls ==
    { Kwargs(Some("Brave"), nth, None, None, pos, None, spawn) :
        nth \in IndexArgs, pos \in {{}, {"right"}}, spawn \in {"False", "True", "no"} }
    \cup
    { Kwargs(Some(app), None, None, None, pos, desk, spawn) :
        app \in {"mate-terminal", "xterm"}, pos \in {{}, {"right"}},
        desk \in {None, Some(0)}, spawn \in {"False", "True"} }

RepositionCalls == ResolverCalls \cup ChromeCalls \cup IdCalls \cup ActiveCalls \cup AppCalls

Init ==
    /\ \E s \in Scenarios :
          /\ monitors = s.monitors
          /\ screen_margins = s.tables.screen
          /\ chromium_margins = s.tables.chromium
          /\ windows = Desktop(s.place)
          /\ active_window = s.active
          /\ search = [a \in Applications |-> IF a = "Brave" THEN s.order ELSE <<>>]
    /\ pc = "idle"
    /\ call = [op |-> "none"]
    /\ kw = Kwargs(None, None, None, None, {}, None, "False")
    /\ window_id = None
    /\ polls = 0
    /\ target_monitor = None
    /\ margins = <<0, 0, 0, 0>>
    /\ rect = None
    /\ cmds = <<>>
    /\ layout_i = 0
    /\ successes = <<>>
    /\ failures = <<>>
    /\ found = Returned(None)
    /\ depth = 0
    /\ process_windows = <<>>
    /\ ret = NoRet


(***************************************************************************)
(* Entry points.                                                           *)
(***************************************************************************)
Truthy(o) == IsSome(o) /\ Val(o) # 0
TruthyStr(o) == IsSome(o) /\ Val(o) # <<>>

\* how a reposition_window call ends: inside run_layout a returned code is
\* filed under successes or failures (lines 762-766) and the loop goes on;
\* an exception is caught nowhere and ends the entry point
Finish(r) ==
    IF call.op = "run_layout" /\ r.kind = "return"
    THEN /\ pc' = "rl_loop"
         /\ successes' = IF r.code = 0 THEN Append(successes, layout_i) ELSE successes
         /\ failures' = IF r.code # 0 THEN Append(failures, layout_i) ELSE failures
         /\ layout_i' = layout_i + 1
         /\ ret' = ret
    ELSE /\ pc' = "done"
         /\ ret' = r
         /\ UNCHANGED lay

\* reposition_window(**kwargs) called directly or by the command line
CallRepositionWindow ==
    /\ pc = "idle"
    /\ \E k \in RepositionCalls : kw' = k
    /\ call' = [op |-> "reposition_window"]
    /\ pc' = "rw_select"
    /\ UNCHANGED <<env, windows, locs, cmds, lay, found, ret, depth, process_windows>>

\* get_monitor_a_location_is_on(x, y) called directly
ProbeXs == {0, 100, 1919, 1920, 1921, 2000, 3285, 5845, 5846}
ProbeYs == {0, 100, 767, 768, 1080, 1081, 1440, 1441}
CallGetMonitorALocationIsOn ==
    /\ pc = "idle"
    /\ \E x \in ProbeXs, y \in ProbeYs :
          /\ call' = [op |-> "get_monitor_a_location_is_on", x |-> x, y |-> y]
          /\ found' = get_monitor_a_location_is_on(x, y, monitors)
    /\ pc' = "done"
    /\ UNCHANGED <<env, windows, kw, locs, cmds, lay, ret, depth, process_windows>>

\* get_monitor_by_name_or_id(name, monitor_id) called directly
CallGetMonitorByNameOrId ==
    /\ pc = "idle"
    /\ \E name \in MonitorNameArgs, monitor_id \in IndexArgs :
          /\ call' = [op |-> "get_monitor_by_name_or_id", name |-> name,
                      monitor_id |-> monitor_id]
          /\ found' = get_monitor_by_name_or_id(name, monitor_id, monitors)
    /\ pc' = "done"
    /\ UNCHANGED <<env, windows, kw, locs, cmds, lay, ret, depth, process_windows>>

(***************************************************************************)
(* reposition_window, step by step.                                        *)
(***************************************************************************)
\* lines 613-641 up to the choice of the window or the decision to spawn
RW_Select ==
    /\ pc = "rw_select"
    /\ LET no_app == IsNone(kw.application_name)
           no_id  == ~Truthy(kw.window_id)
           application_name == IF no_app /\ no_id THEN ACTIVE_WINDOW
                               ELSE IF no_app THEN "" ELSE Val(kw.application_name)
       IN  IF application_name # "" /\ no_id
           THEN IF application_name = ACTIVE_WINDOW
                THEN Finish(Return(1)) /\ UNCHANGED window_id
                ELSE LET window_ids ==
                             get_window_ids_of_application(search[application_name], windows)
                         nth == IF Truthy(kw.nth_instance_of_application)
                                THEN Val(kw.nth_instance_of_application) ELSE 0
                     IN  IF InRange(window_ids, nth)
                         THEN /\ window_id' = Some(PyIndex(window_ids, nth))
                              /\ pc' = "rw_resolve"
                              /\ UNCHANGED <<lay, ret>>
                         ELSE IF kw.spawn_missing \notin NoSpawnValues
                         THEN /\ pc' = "rw_spawn"
                              /\ UNCHANGED <<window_id, lay, ret>>
                         ELSE Finish(Return(1)) /\ UNCHANGED window_id
           ELSE /\ window_id' = kw.window_id
                /\ pc' = "rw_resolve"
                /\ UNCHANGED <<lay, ret>>
    /\ UNCHANGED <<env, windows, call, kw, polls, target_monitor, margins, rect, cmds, found, depth, process_windows>>

NextWindowId(wins) == 1 + (CHOOSE m \in DOMAIN wins : \A o \in DOMAIN wins : o <= m)

\* the range of the loop of line 536, unbounded
poll_again_unbounded(tries) == TRUE

\* `for tries in range(0, 20)`: whether a poll number `tries` is made
poll_again(tries) == tries < SPAWN_TRIES

\* _spawn_missing_application, lines 491-531: the launcher is looked up
\* and run; the new process has no window yet
RW_Spawn ==
    /\ pc = "rw_spawn"
    /\ IF ~has_launcher(Val(kw.application_name))
       THEN Finish(Raise("Exception")) /\ UNCHANGED <<polls, process_windows>>
       ELSE /\ pc' = "rw_poll"
            /\ polls' = 0
            /\ process_windows' = <<>>
            /\ UNCHANGED <<lay, ret>>
    /\ UNCHANGED <<env, windows, call, kw, window_id, target_monitor, margins, rect,
                   cmds, found, depth>>

\* lines 533-548, one turn of the loop or the fallback after it: the poll
\* finds the process's two windows, shown since the poll before, or none
RW_Poll ==
    /\ pc = "rw_poll"
    /\ LET application_name == Val(kw.application_name)
       IN  IF poll_again(polls)
           THEN \E appear \in BOOLEAN :
                  LET first == NextWindowId(windows)
                      fresh == [i \in first..(first + 1) |->
                                   Window(SPAWNED_TITLE, <<0, 0, 640, 480>>, <<>>)]
                      shown == <<first + 1, first>>
                      windows_from_process ==
                          get_window_ids_of_application(shown, windows @@ fresh)
                  IN  /\ polls' = polls + 1
                      /\ IF appear
                         THEN /\ windows' = windows @@ fresh
                              /\ search' = [search EXCEPT ![application_name] = @ \o shown]
                              /\ process_windows' = shown
                              /\ window_id' = Some(PyIndex(windows_from_process, -1))
                              /\ pc' = "rw_resolve"
                         ELSE UNCHANGED <<windows, search, process_windows, window_id, pc>>
           ELSE LET by_name ==
                        get_window_ids_of_application(search[application_name], windows)
                IN  /\ window_id' = IF by_name = <<>> THEN None ELSE Some(by_name[1])
                    /\ pc' = "rw_resolve"
                    /\ UNCHANGED <<windows, search, process_windows, polls>>
    /\ UNCHANGED <<monitors, screen_margins, chromium_margins, active_window,
                   call, kw, target_monitor, margins, rect, cmds, lay, found, depth, ret>>

\* lines 643-698: window details, target monitor, target rectangle
RW_Resolve ==
    /\ pc = "rw_resolve"
    /\ polls' = 0
    /\ process_windows' = <<>>
    /\ IF IsNone(window_id)
       THEN Finish(Raise("TypeError")) /\ UNCHANGED <<target_monitor, margins, rect>>
       ELSE IF Val(window_id) \notin DOMAIN windows
       THEN Finish(Return(1)) /\ UNCHANGED <<target_monitor, margins, rect>>
       ELSE LET window_of_interest == windows[Val(window_id)]
                midpoint_x == window_of_interest.x + (window_of_interest.w \div 2)
                midpoint_y == window_of_interest.y + (window_of_interest.h \div 2)
                lk == IF TruthyStr(kw.target_monitor_name)
                      THEN get_monitor_by_name_or_id(kw.target_monitor_name, None, monitors)
                      ELSE get_monitor_a_location_is_on(midpoint_x, midpoint_y, monitors)
            IN  IF lk.exc # ""
                THEN Finish(Raise(lk.exc)) /\ UNCHANGED <<target_monitor, margins, rect>>
                ELSE /\ target_monitor' = lk.val
                     /\ IF kw.target_position = {} /\ ~Truthy(kw.target_desktop_id)
                        THEN Finish(Return(1)) /\ UNCHANGED <<margins, rect>>
                        ELSE IF kw.target_position # {}
                        THEN LET mon == Val(lk.val)
                                 m == target_monitor_margins(window_of_interest.title, mon,
                                          kw.target_position, screen_margins, chromium_margins)
                             IN  /\ margins' = m
                                 /\ rect' = Some(<< target_xoff(mon, m, kw.target_position),
                                                    target_yoff(mon, m, kw.target_position),
                                                    target_width(mon, m, kw.target_position),
                                                    target_height(mon, m, kw.target_position) >>)
                                 /\ pc' = "mv_unmaximize"
                                 /\ UNCHANGED <<lay, ret>>
                        ELSE /\ pc' = "rw_desktop"
                             /\ UNCHANGED <<margins, rect, lay, ret>>
    /\ UNCHANGED <<env, windows, call, kw, window_id, cmds, found, depth>>


(***************************************************************************)
(* _resize_and_move_window_to_position, lines 551-578: three commands run  *)
(* by subprocess.check_call, which raises CalledProcessError when the      *)
(* command exits non-zero.                                                 *)
(***************************************************************************)
Command(name, win, arg, ok) == [cmd |-> name, window |-> win, arg |-> arg, ok |-> ok]

\* variant of check_call: the exit status is not looked at (subprocess.call)
check_call_unchecked(name, arg, ok, next_pc) ==
    /\ cmds' = Append(cmds, Command(name, Val(window_id), arg, ok))
    /\ pc' = next_pc
    /\ UNCHANGED <<lay, ret>>

\* the command is issued and its exit status is ok; on failure the
\* exception leaves reposition_window
check_call(name, arg, ok, next_pc) ==
    /\ cmds' = Append(cmds, Command(name, Val(window_id), arg, ok))
    /\ IF ok
       THEN pc' = next_pc /\ UNCHANGED <<lay, ret>>
       ELSE Finish(Raise("CalledProcessError"))

\* line 564: wmctrl -b remove,maximized_vert,maximized_horz
MV_Unmaximize ==
    /\ pc = "mv_unmaximize"
    /\ \E ok \in BOOLEAN : check_call("unmaximize", <<>>, ok, "mv_geometry")
    /\ UNCHANGED <<env, windows, call, kw, locs, found, depth, process_windows>>

\* line 573: wmctrl -e 0,x,y,w,h; the window takes the geometry when the
\* command succeeds with a positive size
MV_Geometry ==
    /\ pc = "mv_geometry"
    /\ \E ok \in BOOLEAN :
          /\ check_call("geometry", Val(rect), ok, "mv_activate")
          /\ LET r == Val(rect)
             IN  windows' = IF ok /\ r[3] > 0 /\ r[4] > 0
                            THEN [windows EXCEPT ![Val(window_id)] =
                                     [@ EXCEPT !.x = r[1], !.y = r[2], !.w = r[3], !.h = r[4]]]
                            ELSE windows
    /\ UNCHANGED <<env, call, kw, locs, found, depth, process_windows>>

\* line 576: xdotool windowactivate
MV_Activate ==
    /\ pc = "mv_activate"
    /\ \E ok \in BOOLEAN :
          /\ check_call("activate", <<>>, ok, "rw_desktop")
          /\ active_window' = IF ok THEN window_id ELSE active_window
    /\ UNCHANGED <<monitors, screen_margins, chromium_margins, search, windows,
                   call, kw, locs, found, depth, process_windows>>

\* lines 702-706 and _move_window_to_desktop: os.system, exit status ignored
RW_Desktop ==
    /\ pc = "rw_desktop"
    /\ IF IsSome(kw.target_desktop_id)
       THEN cmds' = Append(cmds, Command("desktop", Val(window_id), kw.target_desktop_id, TRUE))
       ELSE UNCHANGED cmds
    /\ Finish(Return(0))
    /\ UNCHANGED <<env, windows, call, kw, locs, found, depth, process_windows>>

(***************************************************************************)
(* run_layout, lines 730-770.                                              *)
(***************************************************************************)
LayoutNameArgs ==
    { <<"d","e","v">>, <<" ","D","E","V">>, <<"o","f","f","i","c","e">>, <<"a","l","t">> }

\* a preset as a user configures one in the table of line 77: the second
\* window of Brave, to the top of DP-0 on desktop 1
layout_alt ==
    << Kwargs(Some("Brave"), Some(1), None, Some(DP0), {"top"}, Some(1), "False") >>

\* the table `layouts` in use: the preset of the source and the user's
configured_layouts == layouts @@ (<<"a","l","t">> :> layout_alt)

\* lines 737-743: the layout's key, or None when both lookups fail
layout_key(layout) ==
    IF strip(layout) \in DOMAIN configured_layouts THEN Some(strip(layout))
    ELSE IF strip(lower(layout)) \in DOMAIN configured_layouts
    THEN Some(strip(lower(layout)))
    ELSE None

\* an override as the command line builds it: every key but window_id
Override(app, nth, mon, pos, desk, spawn) ==
    [application_name |-> app, nth_instance_of_application |-> nth,
     target_monitor_name |-> mon, target_position |-> pos, target_desktop_id |-> desk,
     spawn_missing |-> spawn]

OverrideArgs ==
    { Override(None, nth, None, pos, desk, "False") :
        nth \in {None, Some(0), Some(2)}, pos \in {{}, {"left"}},
        desk \in {None, Some(0), Some(2)} }
    \cup { Override(Some("xterm"), None, None, {}, None, "False") }

\* line 748: `v not in (None, False, "", [], ())`; 0 == False in Python
Supplied(k, v) ==
    CASE k = "target_position" -> v # {}
      [] k = "spawn_missing"   -> v \notin {"None", "False", "0", ""}
      [] k = "target_monitor_name" -> TruthyStr(v)
      [] k = "application_name" -> IsSome(v) /\ Val(v) # ""
      [] OTHER -> Truthy(v)

\* lines 759-760: the preset updated with the overrides that are supplied
strategy_kwargs(layout_strategy, override) ==
    [k \in DOMAIN layout_strategy |->
        IF k \in DOMAIN override /\ Supplied(k, override[k])
        THEN override[k] ELSE layout_strategy[k]]

CallRunLayout ==
    /\ pc = "idle"
    /\ \E layout \in LayoutNameArgs, override \in OverrideArgs :
          /\ call' = [op |-> "run_layout", layout |-> layout, override |-> override]
          /\ IF IsNone(layout_key(layout))
             THEN pc' = "done" /\ ret' = Raise("WindowPositionException") /\ layout_i' = 0
             ELSE pc' = "rl_loop" /\ ret' = ret /\ layout_i' = 1
    /\ UNCHANGED <<env, windows, kw, locs, cmds, successes, failures, found, depth, process_windows>>

\* one turn of the loop of line 758, or the return of line 770
RL_Loop ==
    /\ pc = "rl_loop"
    /\ LET layout_list == configured_layouts[Val(layout_key(call.layout))]
       IN  IF layout_i > Len(layout_list)
           THEN /\ pc' = "done"
                /\ ret' = Return(Len(failures))
                /\ UNCHANGED <<kw, locs>>
           ELSE /\ kw' = strategy_kwargs(layout_list[layout_i], call.override)
                /\ pc' = "rw_select"
                /\ window_id' = None /\ polls' = 0 /\ target_monitor' = None
                /\ margins' = <<0, 0, 0, 0>> /\ rect' = None
                /\ ret' = ret
    /\ UNCHANGED <<env, windows, call, cmds, lay, found, depth, process_windows>>

(***************************************************************************)
(* reposition_window_and_spawn_missing, lines 709-727: the body is one     *)
(* call of reposition_window_and_spawn_missing with the same arguments.    *)
(* The interpreter ends the recursion with "RuntimeError: maximum          *)
(* recursion depth exceeded" when the stack holds RecursionLimit frames.   *)
(***************************************************************************)
CallRepositionWindowAndSpawnMissing ==
    /\ pc = "idle"
    /\ \E app \in {"Brave", "mate-terminal", "xterm"}, pos \in FewPositions,
          desk \in DesktopArgs :
          call' = [op |-> "reposition_window_and_spawn_missing",
                   args |-> Kwargs(Some(app), Some(0), None, None, pos, desk, "True")]
    /\ pc' = "rwsm_body"
    /\ depth' = 1
    /\ UNCHANGED <<env, windows, kw, locs, cmds, lay, found, process_windows, ret>>

\* line 721: the function calls itself, or the interpreter refuses the frame
RWSM_Body ==
    /\ pc = "rwsm_body"
    /\ IF depth < RecursionLimit
       THEN /\ depth' = depth + 1
            /\ UNCHANGED <<pc, ret>>
       ELSE /\ depth' = 0
            /\ pc' = "done"
            /\ ret' = Raise("RuntimeError")
    /\ UNCHANGED <<env, windows, call, kw, locs, cmds, lay, found, process_windows>>

Next ==
    \/ CallRepositionWindow
    \/ CallRepositionWindowAndSpawnMissing
    \/ RWSM_Body
    \/ CallGetMonitorALocationIsOn
    \/ CallGetMonitorByNameOrId
    \/ CallRunLayout
    \/ RW_Select
    \/ RW_Spawn
    \/ RW_Poll
    \/ RW_Resolve
    \/ MV_Unmaximize
    \/ MV_Geometry
    \/ MV_Activate
    \/ RW_Desktop
    \/ RL_Loop

Spec == Init /\ [][Next]_vars

(***************************************************************************)
(* Properties.                                                             *)
(***************************************************************************)
Last(seq) == seq[Len(seq)]
Issued(name) == \E j \in 1..Len(cmds) : cmds[j].cmd = name

\* the margin tuple leaves the monitor a positive width and height
MarginsFit(M, I) ==
    /\ \A k \in 1..4 : I[k] >= 0
    /\ I[4] + I[2] < M.w
    /\ I[1] + I[3] < M.h

Inside(r, M, I) ==
    /\ r[1] >= M.x + I[4]
    /\ r[1] + r[3] <= M.x + M.w - I[2]
    /\ r[2] >= M.y + I[1]
    /\ r[2] + r[4] <= M.y + M.h - I[3]

\* C1: whenever reposition_window has resolved a rectangle for a monitor M
\* with margins I that are non-negative and smaller than M, the rectangle
\* lies inside M minus I, and the rectangle the geometry command carries is
\* that rectangle.
C1_RectInsideMonitor ==
    /\ IsSome(rect) =>
          (MarginsFit(Val(target_monitor), margins)
              => Inside(Val(rect), Val(target_monitor), margins))
    /\ (cmds # <<>> /\ Last(cmds).cmd = "geometry") => Last(cmds).arg = Val(rect)

\* C1 witness: a right-pinned half on a monitor whose side margins exceed
\* half its width has been passed to the geometry command.
C1_Witness ==
    /\ cmds # <<>> /\ Last(cmds).cmd = "geometry"
    /\ MarginsFit(Val(target_monitor), margins)
    /\ margins[2] > 0 /\ margins[4] > 0
    /\ "right" \in kw.target_position /\ "bottom" \in kw.target_position
    /\ Val(rect)[3] < 0

\* C2: a reposition_window call with a position, no application name and
\* no window id, on a desktop with an active window and monitors, ends with
\* exit code 0 after a geometry command for the active window.
C2_ActiveWindowIsMoved ==
    ( /\ pc = "done" /\ call.op = "reposition_window"
      /\ IsNone(kw.application_name) /\ IsNone(kw.window_id)
      /\ kw.target_position # {}
      /\ monitors # <<>>
      /\ \E w \in DOMAIN windows : Some(w) = active_window )
    => /\ ret = Return(0)
       /\ \E j \in 1..Len(cmds) :
             cmds[j].cmd = "geometry" /\ Some(cmds[j].window) = active_window

\* C3: when run_layout has ended for a layout that exists, every placement
\* of the layout has been attempted and filed under successes or failures.
C3_EveryPlacementAttempted ==
    ( /\ pc = "done" /\ call.op = "run_layout"
      /\ IsSome(layout_key(call.layout)) )
    => LET layout_list == configured_layouts[Val(layout_key(call.layout))]
       IN  /\ ret.kind = "return"
           /\ Len(successes) + Len(failures) = Len(layout_list)

\* the failures of a single placement that C4 lists, read off the final state
NthOutOfRange ==
    /\ IsSome(kw.application_name) /\ ~Truthy(kw.window_id)
    /\ ~InRange(get_window_ids_of_application(search[Val(kw.application_name)], windows),
                IF Truthy(kw.nth_instance_of_application)
                THEN Val(kw.nth_instance_of_application) ELSE 0)
FailedPlacement ==
    \/ IsSome(kw.window_id) /\ Val(kw.window_id) \notin DOMAIN windows
    \/ NthOutOfRange /\ kw.spawn_missing \in NoSpawnValues
    \/ NthOutOfRange /\ kw.spawn_missing \notin NoSpawnValues
          /\ ~has_launcher(Val(kw.application_name))
    \/ IsSome(kw.application_name) /\ ~Truthy(kw.window_id)
          /\ kw.spawn_missing \notin NoSpawnValues /\ IsNone(window_id)
    \/ monitors = <<>>
    \/ kw.target_position = {} /\ IsNone(kw.target_desktop_id)

\* C4: a reposition_window call that fails in one of the listed ways ends
\* by returning a non-zero code, with no exception and no command issued.
C4_FailureReturnsNonZero ==
    (pc = "done" /\ call.op = "reposition_window" /\ FailedPlacement)
    => /\ ret.kind = "return" /\ ret.code # 0
       /\ cmds = <<>>

\* C5 as claimed: with both `left` and `right` requested the rectangle is
\* right-pinned with halved width.
C5_RightWins ==
    (IsSome(rect) /\ {"left", "right"} \subseteq kw.target_position)
    => LET M == Val(target_monitor)
           r == Val(rect)
       IN  /\ r[3] = (M.w \div 2) - margins[4] - margins[2]
           /\ r[1] = M.x + M.w - r[3] - margins[2]

\* C5 as amended: with both `left` and `right` requested the `left` rule
\* is the later one, so the rectangle is left-pinned with halved width.
C5_LeftWins ==
    (IsSome(rect) /\ {"left", "right"} \subseteq kw.target_position)
    => LET M == Val(target_monitor)
           r == Val(rect)
       IN  /\ r[3] = (M.w \div 2) - margins[4] - margins[2]
           /\ r[1] = M.x + margins[4]

\* C5 witness: a geometry command was issued for a request holding `left`
\* and `right` on a monitor with side margins.
C5_Witness ==
    /\ Issued("geometry")
    /\ {"left", "right"} \subseteq kw.target_position
    /\ margins[2] > 0 /\ margins[4] > 0

\* C6: with zero margins {top, left} resolves to (x, y, w/2, h/2) and
\* {bottom, right} to (x + w - w/2, y + h - h/2, w/2, h/2); on the monitor
\* (0, 0, 1920, 1080) these are (0, 0, 960, 540) and (960, 540, 960, 540).
C6_Quarters ==
    (IsSome(rect) /\ margins = <<0, 0, 0, 0>>)
    => LET M == Val(target_monitor)
           r == Val(rect)
           hw == M.w \div 2
           hh == M.h \div 2
           hd == M.x = 0 /\ M.y = 0 /\ M.w = 1920 /\ M.h = 1080
       IN  /\ kw.target_position = {"top", "left"}
              => r = <<M.x, M.y, hw, hh>> /\ (hd => r = <<0, 0, 960, 540>>)
           /\ kw.target_position = {"bottom", "right"}
              => r = <<M.x + M.w - hw, M.y + M.h - hh, hw, hh>>
                 /\ (hd => r = <<960, 540, 960, 540>>)

\* C6 witness: the bottom right quarter of a monitor of odd width and
\* height, without margins, has been passed to the geometry command.
C6_Witness ==
    /\ cmds # <<>> /\ Last(cmds).cmd = "geometry"
    /\ margins = <<0, 0, 0, 0>>
    /\ kw.target_position = {"bottom", "right"}
    /\ Val(target_monitor).w % 2 = 1 /\ Val(target_monitor).h % 2 = 1

\* the rectangle of the running reposition_window has been applied, or its
\* application has been given up
MoveEnded == IsSome(rect) /\ pc \in {"rw_desktop", "rl_loop", "done"}

\* the three commands of the move step, the last three of the log but for
\* a desktop command that follows them
MoveCommands ==
    LET log == IF cmds # <<>> /\ Last(cmds).cmd = "desktop"
               THEN SubSeq(cmds, 1, Len(cmds) - 1) ELSE cmds
    IN  IF Len(log) < 3 THEN <<>> ELSE SubSeq(log, Len(log) - 2, Len(log))

ThreeInOrder(log) ==
    /\ Len(log) = 3
    /\ log[1].cmd = "unmaximize" /\ log[2].cmd = "geometry" /\ log[3].cmd = "activate"
    /\ \A j \in 1..3 : log[j].window = Val(window_id)

\* C7 as claimed: once a rectangle has been applied to a window, the three
\* commands un-maximize, geometry, activate have been issued for it, in
\* this order.
C7_AlwaysThreeCommands == MoveEnded => ThreeInOrder(MoveCommands)

\* C7 as amended: the commands are issued in the order un-maximize,
\* geometry, activate, each one only after the one before it has exited
\* with success; a command that fails is the last one issued and ends the
\* call with CalledProcessError; a move step that runs to its end has
\* issued all three.
C7_CommandOrder ==
    /\ \A j \in 1..Len(cmds) :
          /\ cmds[j].cmd = "geometry"
             => /\ j > 1
                /\ cmds[j-1].cmd = "unmaximize" /\ cmds[j-1].ok
                /\ cmds[j-1].window = cmds[j].window
          /\ cmds[j].cmd = "activate"
             => /\ j > 1
                /\ cmds[j-1].cmd = "geometry" /\ cmds[j-1].ok
                /\ cmds[j-1].window = cmds[j].window
          /\ ~cmds[j].ok
             => j = Len(cmds) /\ pc = "done" /\ ret = Raise("CalledProcessError")
    /\ pc = "mv_geometry" => (cmds # <<>> /\ Last(cmds).cmd = "unmaximize")
    /\ pc = "mv_activate" => (cmds # <<>> /\ Last(cmds).cmd = "geometry")
    /\ (MoveEnded /\ ret.kind # "raise") => ThreeInOrder(MoveCommands)

\* C7 witness: a move step has run to its end after un-maximizing a window,
\* setting its geometry and activating it.
C7_Witness ==
    /\ pc = "rw_desktop" /\ IsSome(rect)
    /\ ThreeInOrder(cmds)
    /\ windows[Val(window_id)].x = Val(rect)[1]

\* the monitors of the list that hold the point, bounds included
Holders(x, y) ==
    {i \in 1..Len(monitors) :
        /\ monitors[i].x <= x /\ x <= monitors[i].x + monitors[i].w
        /\ monitors[i].y <= y /\ y <= monitors[i].y + monitors[i].h}

FirstOf(S) == CHOOSE i \in S : \A j \in S : i <= j

\* C8: on a non-empty monitor list get_monitor_a_location_is_on returns
\* the first monitor whose rectangle, bounds included, holds the point, and
\* the first monitor of the list when none does; (100, 100) and (2000, 100)
\* on two 1920x1080 monitors side by side select the first and the second.
C8_FirstHolderOrFirst ==
    (call.op = "get_monitor_a_location_is_on" /\ monitors # <<>>)
    => /\ found.exc = ""
       /\ found.val = Some(IF Holders(call.x, call.y) = {} THEN monitors[1]
                           ELSE monitors[FirstOf(Holders(call.x, call.y))])
       /\ (monitors = PAIR /\ call.x = 100 /\ call.y = 100) => found.val = Some(PAIR[1])
       /\ (monitors = PAIR /\ call.x = 2000 /\ call.y = 100) => found.val = Some(PAIR[2])

\* C8 witness: a point on the edge shared by two monitors was looked up
\* and the earlier monitor was returned.
C8_Witness ==
    /\ call.op = "get_monitor_a_location_is_on"
    /\ Cardinality(Holders(call.x, call.y)) = 2
    /\ found.val = Some(monitors[1])

\* C9: on a list of n >= 1 monitors get_monitor_by_name_or_id with index i
\* returns the i-th monitor (zero-based) when 0 <= i < n and reports
\* not-found, returning no monitor, for every other index.
C9_IndexLookup ==
    (call.op = "get_monitor_by_name_or_id" /\ IsSome(call.monitor_id) /\ monitors # <<>>)
    => LET i == Val(call.monitor_id)
       IN  IF 0 <= i /\ i < Len(monitors)
           THEN found = Returned(Some(monitors[i + 1]))
           ELSE found = Returned(None)

\* two strings are equal but for the case of their letters
SameLetter(c, d) ==
    c = d \/ \E i \in 1..Len(UpperChars) : {c, d} = {UpperChars[i], LowerChars[i]}
EqualIgnoringCase(a, b) ==
    Len(a) = Len(b) /\ \A i \in 1..Len(a) : SameLetter(a[i], b[i])

\* the monitors whose name is the trimmed target name, case ignored
Namesakes(name) ==
    {i \in 1..Len(monitors) : EqualIgnoringCase(strip(name), monitors[i].name)}

ByName(name) ==
    Some(IF Namesakes(name) = {} THEN monitors[1] ELSE monitors[FirstOf(Namesakes(name))])

\* C10: looked up by a name alone, on a non-empty monitor list,
\* get_monitor_by_name_or_id returns the first monitor whose name equals
\* the trimmed target name, case ignored, and the first monitor of the list
\* when there is none; reposition_window gets its target monitor this way
\* when a monitor name is given.
C10_NameLookup ==
    /\ ( /\ call.op = "get_monitor_by_name_or_id"
         /\ IsSome(call.name) /\ IsNone(call.monitor_id) /\ monitors # <<>> )
       => found = Returned(ByName(Val(call.name)))
    /\ ( /\ call.op \in {"reposition_window", "run_layout"}
         /\ IsSome(target_monitor) /\ TruthyStr(kw.target_monitor_name) )
       => target_monitor = ByName(Val(kw.target_monitor_name))

\* C10 witness: a name in lower case was looked up and a monitor other
\* than the first, named in upper case, was returned.
C10_Witness ==
    /\ call.op = "get_monitor_by_name_or_id"
    /\ IsSome(call.name) /\ IsNone(call.monitor_id)
    /\ Val(call.name) = <<"d","p","-","2">>
    /\ Len(monitors) >= 2
    /\ found.val = Some(monitors[2])
    /\ monitors[2].name = DP2

\* the request for which line 672 swaps in the browser table
BrowserTitle(title) == contains(lower(title), GOOGLE_CHROME) \/ contains(lower(title), CHROMIUM)
PurelyHorizontal(pos) ==
    /\ "left" \in pos \/ "right" \in pos
    /\ "top" \notin pos /\ "bottom" \notin pos
AppliedTable ==
    IF BrowserTitle(windows[Val(window_id)].title) /\ PurelyHorizontal(kw.target_position)
    THEN chromium_margins ELSE screen_margins

\* C11: whenever reposition_window has resolved a rectangle on a monitor
\* whose name has no entry in the margin table that applies to the request,
\* the margins used are zero on all four sides.
C11_MissingEntryIsZero ==
    ( /\ IsSome(rect)
      /\ Val(target_monitor).name \notin DOMAIN AppliedTable )
    => margins = <<0, 0, 0, 0>>

\* the window ids the enumeration returns for the application of the call
EnumeratedIds ==
    Range(get_window_ids_of_application(search[Val(kw.application_name)], windows))

\* C12: once reposition_window has enumerated the windows of a named
\* application, filtering enabled, every id returned (top-level or child),
\* and so the window chosen, is of a window wider than 200 pixels and
\* higher than 200 pixels.
C12_ReturnedWindowsAreLarge ==
    ( /\ pc = "rw_resolve"
      /\ IsSome(kw.application_name) /\ ~Truthy(kw.window_id) )
    => /\ \A id \in EnumeratedIds :
             windows[id].w > WIDTH_THRESHOLD /\ windows[id].h > HEIGHT_THRESHOLD
       /\ IsSome(window_id) =>
             /\ windows[Val(window_id)].w > WIDTH_THRESHOLD
             /\ windows[Val(window_id)].h > HEIGHT_THRESHOLD

\* the ids of a set in the lexicographic order of their decimal strings
RECURSIVE LexOrder(_)
LexOrder(S) ==
    IF S = {} THEN <<>>
    ELSE LET m == CHOOSE a \in S : \A b \in S \ {a} : StrLess(Digits(a), Digits(b))
         IN  <<m>> \o LexOrder(S \ {m})

\* the nth argument as line 629 uses it
NthArg == IF Truthy(kw.nth_instance_of_application)
          THEN Val(kw.nth_instance_of_application) ELSE 0

\* the selection as a function of the set of ids found and of the windows
SelectionOfSet(S, nth) ==
    LET ids == filter_to_large_enough_windows(LexOrder(S), windows)
    IN  IF InRange(ids, nth) THEN Some(PyIndex(ids, nth)) ELSE None

\* C13: when reposition_window has chosen the nth window of a named
\* application among the windows found, the window chosen is the one that
\* the set of ids found determines, whatever the order the search printed
\* them in: the ids are sorted as strings before filtering, and {300, 10, 2}
\* found in any order is sorted to 10, 2, 300.
C13_SelectionIgnoresOrder ==
    /\ ( /\ pc = "rw_resolve" /\ polls = 0
         /\ IsSome(kw.application_name) /\ ~Truthy(kw.window_id) )
       => window_id = SelectionOfSet(Range(search[Val(kw.application_name)]), NthArg)
    /\ Range(search["Brave"]) = {300, 10, 2}
       => SortedIds(search["Brave"]) = <<10, 2, 300>>

\* C13 witness: the search printed 300 before 2, the second window was
\* asked for and window 300, second of the sorted and filtered ids, was
\* chosen.
C13_Witness ==
    /\ pc = "rw_resolve" /\ polls = 0
    /\ kw.application_name = Some("Brave") /\ ~Truthy(kw.window_id)
    /\ search["Brave"] = ORDER_A
    /\ kw.nth_instance_of_application = Some(1)
    /\ window_id = Some(300)

\* a value other than None, False, the empty string and an empty list or
\* tuple; zero is such a value
OtherThanEmpty(k, v) ==
    CASE k = "target_position" -> v # {}
      [] k = "spawn_missing"   -> v \notin {"None", "False", ""}
      [] k = "target_monitor_name" -> IsSome(v) /\ Val(v) # <<>>
      [] k = "application_name" -> IsSome(v) /\ Val(v) # ""
      [] OTHER -> IsSome(v)

\* C14: when run_layout has built the keyword arguments of a placement,
\* each option the override carries is passed with the override's value
\* when that value is other than None, False, the empty string and an empty
\* list or tuple (zero included), and with the preset's value otherwise.
C14_OverridePrecedence ==
    (call.op = "run_layout" /\ pc = "rw_select")
    => LET preset == configured_layouts[Val(layout_key(call.layout))][layout_i]
       IN  \A k \in DOMAIN call.override :
              kw[k] = IF OtherThanEmpty(k, call.override[k])
                      THEN call.override[k] ELSE preset[k]

\* the desktop commands issued, in order
DesktopCommands == SelectSeq(cmds, LAMBDA c : c.cmd = "desktop")

\* C15: when a reposition_window call has returned for a window that was
\* found, on a desktop with monitors, it has issued one desktop command,
\* for that window and desktop d, if a desktop index d was supplied (zero
\* included, with or without a position), and no desktop command if none
\* was supplied.
C15_DesktopCommand ==
    ( /\ pc = "done" /\ call.op = "reposition_window" /\ ret.kind = "return"
      /\ IsSome(window_id) /\ Val(window_id) \in DOMAIN windows
      /\ monitors # <<>> )
    => IF IsSome(kw.target_desktop_id)
       THEN DesktopCommands =
               << Command("desktop", Val(window_id), kw.target_desktop_id, TRUE) >>
       ELSE DesktopCommands = <<>>

\* C16: a call of reposition_window_and_spawn_missing that has ended has
\* returned an exit code, after a geometry command for a window of the
\* application named.
C16_SpawnWrapperReturns ==
    (call.op = "reposition_window_and_spawn_missing" /\ pc = "done")
    => /\ ret.kind = "return"
       /\ Issued("geometry")

\* the filtered ids a poll of the spawned process returns
PolledIds == get_window_ids_of_application(process_windows, windows)

\* the first window found by the application's name
FirstByName ==
    LET by_name == get_window_ids_of_application(search[Val(kw.application_name)], windows)
    IN  IF by_name = <<>> THEN None ELSE Some(by_name[1])

\* C17: the wait for a spawned application's window makes at most
\* SPAWN_TRIES = 20 polls and goes on only while the polls return nothing;
\* when it has ended the window chosen is the last of the ids the first
\* non-empty poll returned, and the first window found by the
\* application's name only if all 20 polls returned nothing.
C17_BoundedWait ==
    /\ polls \in 0..SPAWN_TRIES
    /\ pc = "rw_poll" => PolledIds = <<>>
    /\ (pc = "rw_resolve" /\ polls > 0) =>
          IF PolledIds # <<>>
          THEN window_id = Some(Last(PolledIds))
          ELSE polls = SPAWN_TRIES /\ window_id = FirstByName

\* C17 witness: the spawned process showed its windows at the twentieth
\* poll and the last of them was chosen.
C17_Witness ==
    /\ pc = "rw_resolve" /\ polls = SPAWN_TRIES
    /\ Len(PolledIds) = 2
    /\ window_id = Some(PolledIds[2])

\* C17 witness of the fallback: twenty polls returned nothing and the
\* lookup by name found no window either.
C17_FallbackReached ==
    /\ pc = "rw_resolve" /\ polls = SPAWN_TRIES
    /\ PolledIds = <<>> /\ window_id = None

\* the polls of the wait are made as long as one is due
LiveSpec == Spec /\ WF_vars(RW_Poll)

\* C17, as a whole: the bounds of C17_BoundedWait hold throughout, and a
\* wait that has begun ends with the choice of a window (or of none).
C17_WaitTerminates ==
    /\ []C17_BoundedWait
    /\ (pc = "rw_poll") ~> (pc = "rw_resolve")

\* a string holds a word, the case of the letters ignored
HoldsIgnoringCase(str, word) ==
    \E i \in 1..(Len(str) - Len(word) + 1) :
        EqualIgnoringCase(SubSeq(str, i, i + Len(word) - 1), word)

\* C18: whenever reposition_window has resolved a rectangle, the margins
\* used are those of the browser table for the target monitor (top 32 if it
\* has no entry) exactly when the window's title holds "google chrome" or
\* "chromium", case ignored, and the request holds `left` or `right` and
\* neither `top` nor `bottom`; otherwise they are those of the general
\* table (zero if the monitor has no entry).
C18_BrowserTableChoice ==
    IsSome(rect) =>
       LET title == windows[Val(window_id)].title
           pos == kw.target_position
           name == Val(target_monitor).name
           browser == HoldsIgnoringCase(title, GOOGLE_CHROME)
                          \/ HoldsIgnoringCase(title, CHROMIUM)
           horizontal == {"left", "right"} \cap pos # {} /\ {"top", "bottom"} \cap pos = {}
       IN  margins = IF browser /\ horizontal
                     THEN Get(chromium_margins, name, <<32, 0, 0, 0>>)
                     ELSE Get(screen_margins, name, <<0, 0, 0, 0>>)

\* C18 witness: a window titled "... GOOGLE Chrome" was sent to the right
\* half of a monitor whose browser margins differ from its general ones,
\* and the browser margins were used.
C18_Witness ==
    /\ IsSome(rect)
    /\ windows[Val(window_id)].title = CHROME_TITLE
    /\ kw.target_position = {"right", "middle"}
    /\ Val(target_monitor).name = DVI10
    /\ margins = <<32, 0, 32, 0>>
    /\ Get(screen_margins, DVI10, <<0, 0, 0, 0>>) # margins

\* the running reposition_window call has given its window the rectangle
\* it resolved
Moved ==
    /\ IsSome(rect) /\ IsSome(window_id)
    /\ \E j \in 1..Len(cmds) :
          cmds[j] = Command("geometry", Val(window_id), Val(rect), TRUE)

\* the monitor the centre of the window of the call resolves to, lines 419-422
MonitorOfCentre ==
    LET w == windows[Val(window_id)]
    IN  get_monitor_a_location_is_on(w.x + (w.w \div 2), w.y + (w.h \div 2), monitors)

\* the rectangle the same request resolves to for the window where it is now
ResolvedAgain ==
    LET mon == Val(MonitorOfCentre.val)
        m == target_monitor_margins(windows[Val(window_id)].title, mon,
                 kw.target_position, screen_margins, chromium_margins)
    IN  << target_xoff(mon, m, kw.target_position), target_yoff(mon, m, kw.target_position),
           target_width(mon, m, kw.target_position),
           target_height(mon, m, kw.target_position) >>

\* C19: after a reposition_window call with no target monitor named has
\* moved a window to a rectangle of positive width and height resolved on
\* monitor M, the centre of the window resolves to M again, and the same
\* request resolves to the same rectangle.
C19_WindowSticksToMonitor ==
    ( /\ call.op = "reposition_window" /\ Moved
      /\ ~TruthyStr(kw.target_monitor_name)
      /\ Val(rect)[3] > 0 /\ Val(rect)[4] > 0 )
    => /\ MonitorOfCentre = Returned(target_monitor)
       /\ ResolvedAgain = Val(rect)

=============================================================================
